---- MODULE Spec2Model ----
(***************************************************************************)
(* Model of parse.py (TBFSBS: Text-Based Format for Storing Biological     *)
(* Sequences): TBFSBS.parse, TBFSBS.write and the part of __main__ that    *)
(* connects them.                                                          *)
(*                                                                         *)
(* Text is a sequence of one-character strings: "% A\n" is                 *)
(* <<"%", " ", "A", "\n">>.  A file is the sequence of its rows, each row  *)
(* keeping its line terminator, as Python's file iteration yields them.    *)
(* A float is <<m, e>>, the value m / 10^e with m not a multiple of 10     *)
(* unless e = 0; None is <<>>.                                             *)
(***************************************************************************)
EXTENDS Integers, Sequences, FiniteSets, TLC

VARIABLES
    input_file,     \* rows of the file given to parse
    tbfsbs_file,    \* rows the iteration of line 171 has not yet yielded
    header,         \* parse local (line 170, 182)
    iD,             \* parse local (line 183)
    target_value,   \* parse local (line 186, 189)
    description,    \* parse local (line 187, 190)
    seq,            \* parse local (line 192, 195)
    list,           \* self._list of the Collection parse fills (file, line 286)
    tbfsbs,         \* _list of the aggregate Collection of __main__ (line 272)
    output_file,    \* text written to args.output
    wrap,           \* args.wrap given to write
    exc,            \* exception that ended the run, or "none"
    run,            \* 1: the run on the input; 2: the run on the written output
    pc,
    input_files,    \* args.input_files, the list the loop of line 275 walks
    pos,            \* position in input_files of the next path of that loop
    fs,             \* the paths that exist in the file system
    descending,     \* the order in which the system lists a directory
    calls,          \* parse calls made on the Collection `list`
    before,         \* the Records `list` held when the current parse call began
    list_ids,       \* identity of each Record object in `list`
    tbfsbs_ids,     \* identity of each Record object in `tbfsbs`
    next_id         \* identity the next TBFSBS_Record object gets

\* the state of the loop of __main__
mainvars == <<input_files, pos, fs, descending>>

\* the parse calls made on one Collection
callvars == <<calls, before>>

vars == <<input_file, tbfsbs_file, header, iD, target_value, description,
          seq, list, tbfsbs, output_file, wrap, exc, run, pc, mainvars,
          callvars, list_ids, tbfsbs_ids, next_id>>

-----------------------------------------------------------------------------
(* Bounds of the model *)

\* rows in the input file
MaxRows == 3
\* largest finite wrap width given to write
MaxWrap == 4
\* parse calls made on one Collection
MaxCalls == 3
\* paths given on the command line
MaxArgs == 2

-----------------------------------------------------------------------------
(* Characters *)

Letters == {"A", "B", "C", "G", "T", "X", "d", "e"}
Digits == {"0", "1", "5"}

\* str.isspace for the characters of the model
IsSpace(c) == c \in {" ", "\t", "\n"}

\* None, and the state of a local name before its first assignment
None == <<>>
Unbound == <<"<unbound>">>

\* float("inf"), the default of --wrap: a width no modelled text reaches
Inf == 1000

-----------------------------------------------------------------------------
(* str methods used by parse and write *)

\* row.startswith(c)
StartsWith(row, c) == Len(row) >= 1 /\ row[1] = c

\* s[n:] (n counted from 0, as in the source)
From(s, n) == SubSeq(s, n + 1, Len(s))

RECURSIVE RStrip(_)
\* s.rstrip()
RStrip(s) ==
    IF s = <<>> THEN <<>>
    ELSE IF IsSpace(s[Len(s)]) THEN RStrip(SubSeq(s, 1, Len(s) - 1))
    ELSE s

RECURSIVE LStrip(_)
LStrip(s) ==
    IF s = <<>> THEN <<>>
    ELSE IF IsSpace(s[1]) THEN LStrip(Tail(s))
    ELSE s

RECURSIVE WordLen(_)
\* length of the leading run of non-whitespace characters
WordLen(s) ==
    IF s = <<>> \/ IsSpace(s[1]) THEN 0 ELSE 1 + WordLen(Tail(s))

RECURSIVE Split(_)
\* s.split(): the maximal runs of non-whitespace characters
Split(s) ==
    LET t == LStrip(s)
        n == WordLen(t)
    IN  IF t = <<>> THEN <<>>
        ELSE <<SubSeq(t, 1, n)>> \o Split(From(t, n))

RECURSIVE Join(_)
\* " ".join(tokens)
Join(tokens) ==
    IF tokens = <<>> THEN <<>>
    ELSE IF Len(tokens) = 1 THEN tokens[1]
    ELSE tokens[1] \o <<" ">> \o Join(Tail(tokens))

-----------------------------------------------------------------------------
(* float(token) and str(float) *)

DigitVal(c) == CASE c = "0" -> 0 [] c = "1" -> 1 [] c = "5" -> 5

RECURSIVE IntOf(_)
\* value of a string of digits ("" is 0)
IntOf(ds) ==
    IF ds = <<>> THEN 0
    ELSE 10 * IntOf(SubSeq(ds, 1, Len(ds) - 1)) + DigitVal(ds[Len(ds)])

\* positions of the decimal point
Dots(tok) == {k \in 1..Len(tok) : tok[k] = "."}

\* float(tok) succeeds: digits with at most one point and at least one digit
IsFloat(tok) ==
    /\ \A k \in 1..Len(tok) : tok[k] \in Digits \cup {"."}
    /\ Cardinality(Dots(tok)) <= 1
    /\ \E k \in 1..Len(tok) : tok[k] \in Digits

RECURSIVE Normal(_, _)
\* m / 10^e without trailing zeros in the fraction
Normal(m, e) ==
    IF e > 0 /\ m % 10 = 0 THEN Normal(m \div 10, e - 1) ELSE <<m, e>>

\* float(tok) for a tok with IsFloat(tok)
FloatOf(tok) ==
    IF Dots(tok) = {} THEN <<IntOf(tok), 0>>
    ELSE LET p == CHOOSE k \in Dots(tok) : TRUE
             whole == SubSeq(tok, 1, p - 1)
             frac == From(tok, p)
         IN  Normal(IntOf(whole \o frac), Len(frac))

RECURSIVE Pow10(_)
Pow10(e) == IF e = 0 THEN 1 ELSE 10 * Pow10(e - 1)

DigitChar(d) == CASE d = 0 -> "0" [] d = 1 -> "1" [] d = 2 -> "2" [] d = 3 -> "3"
                  [] d = 4 -> "4" [] d = 5 -> "5" [] d = 6 -> "6" [] d = 7 -> "7"
                  [] d = 8 -> "8" [] d = 9 -> "9"

RECURSIVE IntStr(_)
IntStr(n) ==
    IF n < 10 THEN <<DigitChar(n)>>
    ELSE IntStr(n \div 10) \o <<DigitChar(n % 10)>>

RECURSIVE Pad(_, _)
\* s with zeros in front up to n characters
Pad(s, n) == IF Len(s) >= n THEN s ELSE Pad(<<"0">> \o s, n)

\* "{}".format(v) for a float v: the shortest decimal form, ".0" for a whole number
FloatStr(v) ==
    LET m == v[1]
        e == v[2]
    IN  IntStr(m \div Pow10(e)) \o <<".">> \o
        (IF e = 0 THEN <<"0">> ELSE Pad(IntStr(m % Pow10(e)), e))

\* truth value of a target_value in `if record.target_value:`
Truthy(v) == v # None /\ v[1] # 0

-----------------------------------------------------------------------------
(* textwrap.fill(text, width), as write calls it: a TextWrapper with its     *)
(* defaults (expand_tabs, replace_whitespace, drop_whitespace,               *)
(* break_long_words, break_on_hyphens; tabsize 8, no indent, no max_lines)   *)

RECURSIVE Spaces(_)
Spaces(n) == IF n = 0 THEN <<>> ELSE <<" ">> \o Spaces(n - 1)

RECURSIVE ExpandTabs(_, _)
\* text.expandtabs(8), col being the column of text[1]
ExpandTabs(text, col) ==
    IF text = <<>> THEN <<>>
    ELSE IF text[1] = "\t"
         THEN LET n == 8 - (col % 8)
              IN  Spaces(n) \o ExpandTabs(Tail(text), col + n)
         ELSE <<text[1]>> \o ExpandTabs(Tail(text), col + 1)

\* TextWrapper._munge_whitespace: tabs expanded, then every whitespace
\* character replaced by a space
Munge(text) ==
    LET t == ExpandTabs(text, 0)
    IN  [k \in 1..Len(t) |-> IF IsSpace(t[k]) THEN " " ELSE t[k]]

\* the character classes of TextWrapper.wordsep_re
IsLetter(c) == c \in Letters
IsWordChar(c) == c \in Letters \cup Digits
IsWordPunct(c) == IsWordChar(c) \/ c = "."

\* text[k], or "" outside the text
At(text, k) == IF k >= 1 /\ k <= Len(text) THEN text[k] ELSE ""

RECURSIVE SpaceRun(_, _)
\* length of the run of whitespace starting at position p
SpaceRun(text, p) ==
    IF IsSpace(At(text, p)) THEN 1 + SpaceRun(text, p + 1) ELSE 0

RECURSIVE HyphenRun(_, _)
\* length of the run of hyphens starting at position p
HyphenRun(text, p) ==
    IF At(text, p) = "-" THEN 1 + HyphenRun(text, p + 1) ELSE 0

\* wordsep_re, second alternative: two or more hyphens between word characters
EmDashAt(text, p) ==
    /\ IsWordPunct(At(text, p - 1))
    /\ HyphenRun(text, p) >= 2
    /\ IsWordChar(At(text, p + HyphenRun(text, p)))

\* wordsep_re, "hyphenated word": the hyphen at q ends the chunk
HyphenBreakAt(text, q) ==
    /\ At(text, q) = "-"
    /\ \/ IsLetter(At(text, q - 2)) /\ IsLetter(At(text, q - 1))
       \/ /\ IsLetter(At(text, q - 3)) /\ At(text, q - 2) = "-"
          /\ IsLetter(At(text, q - 1))
    /\ IsLetter(At(text, q + 1))
    /\ \/ IsLetter(At(text, q + 2))
       \/ At(text, q + 2) = "-" /\ IsLetter(At(text, q + 3))

\* wordsep_re, "end of word" and "em-dash": the chunk ends before q
WordEndAt(text, q) ==
    \/ q > Len(text)
    \/ IsSpace(At(text, q))
    \/ IsWordPunct(At(text, q - 1)) /\ EmDashAt(text, q)

RECURSIVE WordChunkLen(_, _, _)
\* wordsep_re, third alternative: the shortest run of n or more
\* non-whitespace characters from p that ends a word
WordChunkLen(text, p, n) ==
    IF HyphenBreakAt(text, p + n) THEN n + 1
    ELSE IF WordEndAt(text, p + n) THEN n
    ELSE WordChunkLen(text, p, n + 1)

RECURSIVE SplitChunks(_, _)
\* TextWrapper._split: the chunks of text from position p on
SplitChunks(text, p) ==
    IF p > Len(text) THEN <<>>
    ELSE LET n == IF IsSpace(text[p]) THEN SpaceRun(text, p)
                  ELSE IF text[p] = "-" /\ EmDashAt(text, p)
                       THEN HyphenRun(text, p)
                  ELSE WordChunkLen(text, p, 1)
         IN  <<SubSeq(text, p, p + n - 1)>> \o SplitChunks(text, p + n)

\* chunk.strip() == ''
Blank(chunk) == \A k \in 1..Len(chunk) : IsSpace(chunk[k])

RECURSIVE Fit(_, _, _)
\* the number of leading chunks that fit in a line of `width` holding cur_len
Fit(chunks, cur_len, width) ==
    IF chunks # <<>> /\ cur_len + Len(chunks[1]) <= width
    THEN 1 + Fit(Tail(chunks), cur_len + Len(chunks[1]), width)
    ELSE 0

RECURSIVE Flat(_)
\* ''.join(chunks)
Flat(chunks) == IF chunks = <<>> THEN <<>> ELSE chunks[1] \o Flat(Tail(chunks))

\* chunk.rfind('-', 0, stop), counted from 0; -1 when there is none
RFindHyphen(chunk, stop) ==
    LET hs == {k \in 1..stop : k <= Len(chunk) /\ chunk[k] = "-"}
    IN  IF hs = {} THEN -1 ELSE (CHOOSE k \in hs : \A j \in hs : j <= k) - 1

\* TextWrapper._handle_long_word: how many characters of the too long chunk
\* go on the current line
LongWordCut(chunk, space_left) ==
    LET hyphen == RFindHyphen(chunk, space_left)
    IN  IF /\ Len(chunk) > space_left
           /\ hyphen > 0
           /\ \E k \in 1..hyphen : chunk[k] # "-"
        THEN hyphen + 1
        ELSE space_left

RECURSIVE WrapChunks(_, _, _)
\* TextWrapper._wrap_chunks: the lines made of the chunks, after `lines`
WrapChunks(chunks, lines, width) ==
    IF chunks = <<>> THEN lines
    ELSE
      LET c1 == IF Blank(chunks[1]) /\ lines # <<>> THEN Tail(chunks) ELSE chunks
          k == Fit(c1, 0, width)
          fitted == SubSeq(c1, 1, k)
          c2 == From(c1, k)
          cur_len == Len(Flat(fitted))
          long == c2 # <<>> /\ Len(c2[1]) > width
          end == IF long THEN LongWordCut(c2[1], width - cur_len) ELSE 0
          cur_line == IF long THEN Append(fitted, SubSeq(c2[1], 1, end)) ELSE fitted
          c3 == IF long THEN <<From(c2[1], end)>> \o Tail(c2) ELSE c2
          kept == IF cur_line # <<>> /\ Blank(cur_line[Len(cur_line)])
                  THEN SubSeq(cur_line, 1, Len(cur_line) - 1)
                  ELSE cur_line
      IN  WrapChunks(c3, IF kept # <<>> THEN Append(lines, Flat(kept)) ELSE lines,
                     width)

\* TextWrapper.wrap(text)
Wrap(text, width) == WrapChunks(SplitChunks(Munge(text), 1), <<>>, width)

RECURSIVE JoinLines(_)
\* "\n".join(lines)
JoinLines(lines) ==
    IF lines = <<>> THEN <<>>
    ELSE IF Len(lines) = 1 THEN lines[1]
    ELSE lines[1] \o <<"\n">> \o JoinLines(Tail(lines))

\* textwrap.fill(text, width)
Fill(text, width) == JoinLines(Wrap(text, width))

-----------------------------------------------------------------------------
(* Input: the rows a file of the model is made of *)

\* "% A 1.5 d e\n"
HdrValue == <<"%", " ", "A", " ", "1", ".", "5", " ", "d", " ", "e", "\n">>
\* "% B d e\n"
HdrPlain == <<"%", " ", "B", " ", "d", " ", "e", "\n">>
\* "% X\n"
HdrBare == <<"%", " ", "X", "\n">>
\* "% A 0 d\n"
HdrZero == <<"%", " ", "A", " ", "0", " ", "d", "\n">>
\* "% B  1.50\td \n"
HdrSpaced == <<"%", " ", "B", " ", " ", "1", ".", "5", "0", "\t", "d", " ", "\n">>
\* "%A 1.5 d\n"
HdrGlued == <<"%", "A", " ", "1", ".", "5", " ", "d", "\n">>
\* "%\n"
HdrMarker == <<"%", "\n">>
\* "ACGT\n"
BodyPlain == <<"A", "C", "G", "T", "\n">>
\* "A C \n"
BodySpaced == <<"A", " ", "C", " ", "\n">>
\* "AC-GT\n"
BodyHyphen == <<"A", "C", "-", "G", "T", "\n">>
\* "A\tC\n"
BodyTab == <<"A", "\t", "C", "\n">>
\* "\n"
BodyBlank == <<"\n">>

HeaderRows == {HdrValue, HdrPlain, HdrBare, HdrZero, HdrSpaced, HdrGlued, HdrMarker}
BodyRows == {BodyPlain, BodySpaced, BodyHyphen, BodyTab, BodyBlank}
Rows == HeaderRows \cup BodyRows

\* the files of at most MaxRows rows
Files == UNION {[1..n -> Rows] : n \in 0..MaxRows}

\* the values of --wrap: 1..MaxWrap, and the default
WrapWidths == (1..MaxWrap) \cup {Inf}

-----------------------------------------------------------------------------
(* TBFSBS_Record and TBFSBS.parse *)

\* TBFSBS_Record(identifier, target_value, description, sequence)
TBFSBS_Record(i, t, d, s) ==
    [identifier |-> i, target_value |-> t, description |-> d, sequence |-> s]

\* line 185-190: float(header[2]) succeeds; a missing header[2] raises
\* IndexError, which the bare except catches like ValueError
HasValue(hdr) == Len(hdr) >= 3 /\ IsFloat(hdr[3])

\* line 186, 189: the target value of a split header line
HeaderValue(hdr) == IF HasValue(hdr) THEN FloatOf(hdr[3]) ELSE None

\* line 187 taking header[2:] as line 190 does: the number stays in the description
HeaderDescriptionAll(hdr) == Join(From(hdr, 2))

\* line 187, 190: the description of a split header line
HeaderDescription(hdr) ==
    IF HasValue(hdr) THEN Join(From(hdr, 3)) ELSE Join(From(hdr, 2))

\* line 192: the accumulator a header line leaves
HeaderSeq(old) == <<>>

\* line 195 without the rstrip: the line terminator stays in the sequence
BodySeqRaw(old, row) == old \o row

\* line 195: seq += row.rstrip()
BodySeq(old, row) == old \o RStrip(row)

\* line 175-180: the pending record is appended when a header was seen before
Flush ==
    IF header # <<>>
    THEN Append(list, TBFSBS_Record(iD, target_value, description, seq))
    ELSE list

\* line 196-201 appending only when body lines were read
ElseFlushIfBody ==
    IF seq # <<>>
    THEN Append(list, TBFSBS_Record(iD, target_value, description, seq))
    ELSE list

\* line 196-201: the else clause of the for loop appends the pending record
ElseFlush == Append(list, TBFSBS_Record(iD, target_value, description, seq))

\* line 176, 197: each TBFSBS_Record(...) is a new object; the Record that
\* this step appends to `list`, if any, gets the next identity
AllocIds ==
    /\ list_ids' = IF Len(list') > Len(list)
                   THEN Append(list_ids, next_id)
                   ELSE list_ids
    /\ next_id' = IF Len(list') > Len(list) THEN next_id + 1 ELSE next_id

\* line 173-192 appending the Record of the new header at once, before its
\* body lines are read
ParseHeaderEager ==
    /\ pc = "parse"
    /\ tbfsbs_file # <<>>
    /\ StartsWith(Head(tbfsbs_file), "%")
    /\ Len(Split(Head(tbfsbs_file))) >= 2
    /\ header' = Split(Head(tbfsbs_file))
    /\ iD' = header'[2]
    /\ target_value' = HeaderValue(header')
    /\ description' = HeaderDescription(header')
    /\ seq' = HeaderSeq(seq)
    /\ list' = Append(list, TBFSBS_Record(iD', target_value', description', seq'))
    /\ tbfsbs_file' = Tail(tbfsbs_file)
    /\ UNCHANGED <<input_file, tbfsbs, output_file, wrap, exc, run, pc>>
    /\ AllocIds
    /\ UNCHANGED <<mainvars, callvars, tbfsbs_ids>>

\* line 173-192: a header line with an identifier
ParseHeader ==
    /\ pc = "parse"
    /\ tbfsbs_file # <<>>
    /\ StartsWith(Head(tbfsbs_file), "%")
    /\ Len(Split(Head(tbfsbs_file))) >= 2
    /\ list' = Flush
    /\ header' = Split(Head(tbfsbs_file))
    /\ iD' = header'[2]
    /\ target_value' = HeaderValue(header')
    /\ description' = HeaderDescription(header')
    /\ seq' = HeaderSeq(seq)
    /\ tbfsbs_file' = Tail(tbfsbs_file)
    /\ UNCHANGED <<input_file, tbfsbs, output_file, wrap, exc, run, pc>>
    /\ AllocIds
    /\ UNCHANGED <<mainvars, callvars, tbfsbs_ids>>

\* line 173-192 with a missing identifier read as the empty string instead of
\* raising
ParseHeaderNoId ==
    /\ pc = "parse"
    /\ tbfsbs_file # <<>>
    /\ StartsWith(Head(tbfsbs_file), "%")
    /\ Len(Split(Head(tbfsbs_file))) < 2
    /\ list' = Flush
    /\ header' = Split(Head(tbfsbs_file))
    /\ iD' = <<>>
    /\ target_value' = None
    /\ description' = <<>>
    /\ seq' = <<>>
    /\ tbfsbs_file' = Tail(tbfsbs_file)
    /\ UNCHANGED <<input_file, tbfsbs, output_file, wrap, exc, run, pc>>
    /\ AllocIds
    /\ UNCHANGED <<mainvars, callvars, tbfsbs_ids>>

\* line 173-183: a header line without identifier: header[1] raises IndexError
\* after the pending record was appended
ParseHeaderRaise ==
    /\ pc = "parse"
    /\ tbfsbs_file # <<>>
    /\ StartsWith(Head(tbfsbs_file), "%")
    /\ Len(Split(Head(tbfsbs_file))) < 2
    /\ list' = Flush
    /\ header' = Split(Head(tbfsbs_file))
    /\ tbfsbs_file' = Tail(tbfsbs_file)
    /\ exc' = "IndexError"
    /\ pc' = "raised"
    /\ UNCHANGED <<input_file, iD, target_value, description, seq, tbfsbs,
                   output_file, wrap, run>>
    /\ AllocIds
    /\ UNCHANGED <<mainvars, callvars, tbfsbs_ids>>

\* line 194-195: a line that is no header, after a header
ParseBody ==
    /\ pc = "parse"
    /\ tbfsbs_file # <<>>
    /\ ~StartsWith(Head(tbfsbs_file), "%")
    /\ seq # Unbound
    /\ seq' = BodySeq(seq, Head(tbfsbs_file))
    /\ tbfsbs_file' = Tail(tbfsbs_file)
    /\ UNCHANGED <<input_file, header, iD, target_value, description, list,
                   tbfsbs, output_file, wrap, exc, run, pc>>
    /\ UNCHANGED <<mainvars, callvars, list_ids, tbfsbs_ids, next_id>>

\* line 194-195: a line that is no header, before any header: seq is read
\* before its first assignment
ParseBodyRaise ==
    /\ pc = "parse"
    /\ tbfsbs_file # <<>>
    /\ ~StartsWith(Head(tbfsbs_file), "%")
    /\ seq = Unbound
    /\ tbfsbs_file' = Tail(tbfsbs_file)
    /\ exc' = "UnboundLocalError"
    /\ pc' = "raised"
    /\ UNCHANGED <<input_file, header, iD, target_value, description, seq,
                   list, tbfsbs, output_file, wrap, run>>
    /\ UNCHANGED <<mainvars, callvars, list_ids, tbfsbs_ids, next_id>>

\* line 196-201: the rows are exhausted and the loop's else clause runs
ParseElse ==
    /\ pc = "parse"
    /\ tbfsbs_file = <<>>
    /\ iD # Unbound
    /\ list' = ElseFlush
    /\ pc' = "parsed"
    /\ UNCHANGED <<input_file, tbfsbs_file, header, iD, target_value,
                   description, seq, tbfsbs, output_file, wrap, exc, run>>
    /\ AllocIds
    /\ UNCHANGED <<mainvars, callvars, tbfsbs_ids>>

\* line 196-197: the else clause runs with no header seen: iD is read before
\* its first assignment
ParseElseRaise ==
    /\ pc = "parse"
    /\ tbfsbs_file = <<>>
    /\ iD = Unbound
    /\ exc' = "UnboundLocalError"
    /\ pc' = "raised"
    /\ UNCHANGED <<input_file, tbfsbs_file, header, iD, target_value,
                   description, seq, list, tbfsbs, output_file, wrap, run>>
    /\ UNCHANGED <<mainvars, callvars, list_ids, tbfsbs_ids, next_id>>

-----------------------------------------------------------------------------
(* TBFSBS.extend, TBFSBS.write and __main__ *)

\* line 148-149 with the new Records put in front
extendFront(self, value) == value \o self

\* line 148-149: self._list.extend(value)
extend(self, value) == self \o value

\* line 224-227: the text of the target value in the header line
ValueStr(record) ==
    IF Truthy(record.target_value)
    THEN FloatStr(record.target_value) \o <<" ">>
    ELSE <<>>

\* line 229-233: the header line of a record, without its newline
HeaderLine(record) ==
    <<"%", " ">> \o record.identifier \o <<" ">> \o ValueStr(record)
        \o record.description

\* line 229-235: what one record adds to records_str
RecordStr(record, width) ==
    HeaderLine(record) \o <<"\n">> \o Fill(record.sequence, width) \o <<"\n">>

RECURSIVE RecordsStrReversed(_, _)
\* line 221-235 adding each record in front of records_str
RecordsStrReversed(records, width) ==
    IF records = <<>> THEN <<>>
    ELSE RecordsStrReversed(Tail(records), width) \o RecordStr(Head(records), width)

RECURSIVE RecordsStr(_, _)
\* line 221-235: records_str after the loop over self._list
RecordsStr(records, width) ==
    IF records = <<>> THEN <<>>
    ELSE RecordStr(Head(records), width) \o RecordsStr(Tail(records), width)

\* line 237: records_str[:-1]
ButLast(s) == SubSeq(s, 1, Len(s) - 1)

\* line 203-237: the text write gives to output_file.write
WriteText(records, width) == ButLast(RecordsStr(records, width))

RECURSIVE ReadLines(_)
\* line 171: the rows iterating over a file of this text yields
ReadLines(text) ==
    IF text = <<>> THEN <<>>
    ELSE LET nl == {k \in 1..Len(text) : text[k] = "\n"}
             n == IF nl = {} THEN Len(text)
                  ELSE CHOOSE k \in nl : \A j \in nl : k <= j
         IN  <<SubSeq(text, 1, n)>> \o ReadLines(From(text, n))

\* line 288-290: the parsed file is added to the aggregate Collection
Extend ==
    /\ pc = "parsed"
    /\ run = 1
    /\ tbfsbs' = extend(tbfsbs, list)
    /\ pc' = "extended"
    /\ UNCHANGED <<input_file, tbfsbs_file, header, iD, target_value,
                   description, seq, list, output_file, wrap, exc, run>>
    /\ tbfsbs_ids' = extend(tbfsbs_ids, list_ids)
    /\ UNCHANGED <<mainvars, callvars, list_ids, next_id>>

\* line 292-293, 203-237: tbfsbs.write(args.output, args.wrap)
Write ==
    /\ pc = "extended"
    /\ \E w \in WrapWidths :
          /\ wrap' = w
          /\ output_file' = WriteText(tbfsbs, w)
    /\ pc' = "written"
    /\ UNCHANGED <<input_file, tbfsbs_file, header, iD, target_value,
                   description, seq, list, tbfsbs, exc, run>>
    /\ UNCHANGED <<mainvars, callvars, list_ids, tbfsbs_ids, next_id>>

\* line 286-287, 168-170: the written file is parsed into a new Collection
ReadBack ==
    /\ pc = "written"
    /\ run = 1
    /\ input_file' = ReadLines(output_file)
    /\ tbfsbs_file' = input_file'
    /\ header' = <<>>
    /\ iD' = Unbound
    /\ target_value' = Unbound
    /\ description' = Unbound
    /\ seq' = Unbound
    /\ list' = <<>>
    /\ run' = 2
    /\ pc' = "parse"
    /\ UNCHANGED <<tbfsbs, output_file, wrap, exc>>
    /\ list_ids' = <<>>
    /\ UNCHANGED <<mainvars, callvars, tbfsbs_ids, next_id>>

\* parse is entered on the one input file (line 286-287, 168-170), or the
\* loop of __main__ ended without any file to parse (line 275-280)
Init ==
    /\ input_file \in Files
    /\ tbfsbs_file = input_file
    /\ header = <<>>
    /\ iD = Unbound
    /\ target_value = Unbound
    /\ description = Unbound
    /\ seq = Unbound
    /\ list = <<>>
    /\ tbfsbs = <<>>
    /\ output_file = <<>>
    /\ wrap = Inf
    /\ exc = "none"
    /\ run = 1
    /\ pc \in {"parse", "extended"}
    /\ pc = "extended" => input_file = <<>>
    /\ input_files = <<>>
    /\ pos = 1
    /\ fs = {}
    /\ descending = FALSE
    /\ calls = 1
    /\ before = <<>>
    /\ list_ids = <<>>
    /\ tbfsbs_ids = <<>>
    /\ next_id = 1

Next ==
    \/ ParseHeader
    \/ ParseHeaderRaise
    \/ ParseBody
    \/ ParseBodyRaise
    \/ ParseElse
    \/ ParseElseRaise
    \/ Extend
    \/ Write
    \/ ReadBack

Spec == Init /\ [][Next]_vars

-----------------------------------------------------------------------------
(* Several parse calls on one Collection *)

\* the files given to the parse calls
AgainFiles ==
    { <<>>,
      <<HdrPlain>>,
      <<HdrValue, BodySpaced>>,
      <<BodySpaced, HdrPlain>>,
      <<HdrPlain, HdrMarker>>,
      <<HdrValue, BodySpaced, HdrPlain, BodyPlain>> }

\* line 151-170 with header, iD, target_value, description and seq kept from
\* the call before, as attributes of the Collection would be
ParseAgainKeepLocals ==
    /\ pc \in {"parsed", "raised"}
    /\ calls < MaxCalls
    /\ input_file' \in AgainFiles
    /\ tbfsbs_file' = input_file'
    /\ before' = list
    /\ calls' = calls + 1
    /\ exc' = "none"
    /\ pc' = "parse"
    /\ UNCHANGED <<header, iD, target_value, description, seq, list, tbfsbs,
                   output_file, wrap, run, mainvars, list_ids, tbfsbs_ids,
                   next_id>>

\* line 151-170: parse is called again on the same Collection, after a call
\* that returned or whose exception the caller caught; the names of the new
\* call are local to it
ParseAgain ==
    /\ pc \in {"parsed", "raised"}
    /\ calls < MaxCalls
    /\ input_file' \in AgainFiles
    /\ tbfsbs_file' = input_file'
    /\ header' = <<>>
    /\ iD' = Unbound
    /\ target_value' = Unbound
    /\ description' = Unbound
    /\ seq' = Unbound
    /\ before' = list
    /\ calls' = calls + 1
    /\ exc' = "none"
    /\ pc' = "parse"
    /\ UNCHANGED <<list, tbfsbs, output_file, wrap, run, mainvars, list_ids,
                   tbfsbs_ids, next_id>>

\* line 102-112, 151-170: the first parse call on a new Collection
InitAgain ==
    /\ input_file \in AgainFiles
    /\ tbfsbs_file = input_file
    /\ header = <<>>
    /\ iD = Unbound
    /\ target_value = Unbound
    /\ description = Unbound
    /\ seq = Unbound
    /\ list = <<>>
    /\ tbfsbs = <<>>
    /\ output_file = <<>>
    /\ wrap = Inf
    /\ exc = "none"
    /\ run = 1
    /\ pc = "parse"
    /\ input_files = <<>>
    /\ pos = 1
    /\ fs = {}
    /\ descending = FALSE
    /\ calls = 1
    /\ before = <<>>
    /\ list_ids = <<>>
    /\ tbfsbs_ids = <<>>
    /\ next_id = 1

NextAgain ==
    \/ ParseHeader
    \/ ParseHeaderRaise
    \/ ParseBody
    \/ ParseBodyRaise
    \/ ParseElse
    \/ ParseElseRaise
    \/ ParseAgain

SpecAgain == InitAgain /\ [][NextAgain]_vars

-----------------------------------------------------------------------------
(* The loop of __main__ over files and directories *)

\* names of directory entries, in the order used to list a directory
Names == <<"a", "b", "d", "e", "m", "n", "s", "t">>

\* the names that are directories; the others are regular files
DirNames == {"d", "s", "t"}

\* the paths a file system may hold, a path being the names from the top
Paths ==
    { <<"a">>, <<"m">>, <<"d">>,
      <<"d", "b">>, <<"d", "e">>, <<"d", "s">>,
      <<"d", "s", "a">>, <<"d", "s", "n">>, <<"d", "s", "t">>,
      <<"d", "s", "t", "b">> }

Name(path) == path[Len(path)]

Parent(path) == SubSeq(path, 1, Len(path) - 1)

\* the file systems: every path held has its directory held
Trees ==
    { t \in SUBSET Paths :
        \A q \in t : Len(q) > 1 => Parent(q) \in t }

\* line 277: os.path.isdir(input_file)
IsDir(path) == path \in fs /\ Name(path) \in DirNames

\* line 168: the rows of the file at a path
Content(path) ==
    CASE Name(path) = "a" -> <<HdrValue, BodyPlain, HdrPlain, HdrBare>>
      [] Name(path) = "b" -> <<HdrPlain, BodySpaced, HdrValue>>
      [] Name(path) = "m" -> <<HdrBare, HdrMarker>>
      [] Name(path) = "n" -> <<BodyPlain, HdrPlain>>
      [] OTHER -> <<>>

Rank(path) == CHOOSE i \in 1..Len(Names) : Names[i] = Name(path)

Children(path) == {q \in fs : Len(q) > 1 /\ Parent(q) = path}

RECURSIVE ScanDir(_)
\* the entries of a directory in the order the file system lists them
ScanDir(entries) ==
    IF entries = {} THEN <<>>
    ELSE LET first == CHOOSE p \in entries : \A q \in entries :
                          IF descending THEN Rank(q) <= Rank(p)
                                        ELSE Rank(p) <= Rank(q)
         IN  <<first>> \o ScanDir(entries \ {first})

RECURSIVE IterateDirectories(_)
RECURSIVE IterateAll(_)
\* a directory and then, entry by entry, the directories below it
IterateDirectories(path) ==
    <<path>> \o IterateAll(ScanDir({q \in Children(path) : IsDir(q)}))

IterateAll(paths) ==
    IF paths = <<>> THEN <<>>
    ELSE IterateDirectories(Head(paths)) \o IterateAll(Tail(paths))

RECURSIVE SelectAll(_)
\* the entries of each directory of a sequence
SelectAll(paths) ==
    IF paths = <<>> THEN <<>>
    ELSE ScanDir(Children(Head(paths))) \o SelectAll(Tail(paths))

\* line 278: list(Path(input_file).rglob("*")), every entry below the
\* directory, files and directories alike
rglob(path) == SelectAll(IterateDirectories(path))

\* line 273: the paths given on the command line, one at least
ArgLists(tree) ==
    LET top == {q \in tree : Len(q) = 1}
    IN  { a \in UNION {[1..n -> top] : n \in 1..MaxArgs} :
            \A i, j \in DOMAIN a : a[i] = a[j] => i = j }

\* line 275-280: the entry is a directory, what is below it joins the list
MainDir ==
    /\ pc = "main"
    /\ pos <= Len(input_files)
    /\ IsDir(input_files[pos])
    /\ input_files' = input_files \o rglob(input_files[pos])
    /\ pos' = pos + 1
    /\ UNCHANGED <<input_file, tbfsbs_file, header, iD, target_value,
                   description, seq, list, tbfsbs, output_file, wrap, exc,
                   run, pc, fs, descending, callvars, list_ids, tbfsbs_ids,
                   next_id>>

\* line 275-287, 168-170: the entry is a file, a new Collection parses it
MainFile ==
    /\ pc = "main"
    /\ pos <= Len(input_files)
    /\ ~IsDir(input_files[pos])
    /\ input_file' = Content(input_files[pos])
    /\ tbfsbs_file' = input_file'
    /\ header' = <<>>
    /\ iD' = Unbound
    /\ target_value' = Unbound
    /\ description' = Unbound
    /\ seq' = Unbound
    /\ list' = <<>>
    /\ list_ids' = <<>>
    /\ calls' = 1
    /\ before' = <<>>
    /\ pc' = "parse"
    /\ UNCHANGED <<tbfsbs, output_file, wrap, exc, run, mainvars, tbfsbs_ids,
                   next_id>>

\* line 288-290: print(file); tbfsbs.extend(file), then the next entry
MainExtend ==
    /\ pc = "parsed"
    /\ tbfsbs' = extend(tbfsbs, list)
    /\ tbfsbs_ids' = extend(tbfsbs_ids, list_ids)
    /\ pos' = pos + 1
    /\ pc' = "main"
    /\ UNCHANGED <<input_file, tbfsbs_file, header, iD, target_value,
                   description, seq, list, output_file, wrap, exc, run,
                   input_files, fs, descending, callvars, list_ids, next_id>>

\* line 292-293 moved into the loop: the write no longer waits for its end
MainWriteInLoop ==
    /\ pc = "main"
    /\ \E w \in WrapWidths :
          /\ wrap' = w
          /\ output_file' = WriteText(tbfsbs, w)
    /\ pc' = "written"
    /\ UNCHANGED <<input_file, tbfsbs_file, header, iD, target_value,
                   description, seq, list, tbfsbs, exc, run, mainvars,
                   callvars, list_ids, tbfsbs_ids, next_id>>

\* line 292-293, 203-237: the loop has ended and --output was given
MainWrite ==
    /\ pc = "main"
    /\ pos > Len(input_files)
    /\ \E w \in WrapWidths :
          /\ wrap' = w
          /\ output_file' = WriteText(tbfsbs, w)
    /\ pc' = "written"
    /\ UNCHANGED <<input_file, tbfsbs_file, header, iD, target_value,
                   description, seq, list, tbfsbs, exc, run, mainvars,
                   callvars, list_ids, tbfsbs_ids, next_id>>

\* line 292: the loop has ended and --output was not given
MainExit ==
    /\ pc = "main"
    /\ pos > Len(input_files)
    /\ pc' = "exit"
    /\ UNCHANGED <<input_file, tbfsbs_file, header, iD, target_value,
                   description, seq, list, tbfsbs, output_file, wrap, exc,
                   run, mainvars, callvars, list_ids, tbfsbs_ids, next_id>>

\* line 269-275: the arguments are read and the aggregate is empty
InitMain ==
    /\ fs \in Trees
    /\ descending \in BOOLEAN
    /\ input_files \in ArgLists(fs)
    /\ pos = 1
    /\ input_file = <<>>
    /\ tbfsbs_file = <<>>
    /\ header = <<>>
    /\ iD = Unbound
    /\ target_value = Unbound
    /\ description = Unbound
    /\ seq = Unbound
    /\ list = <<>>
    /\ tbfsbs = <<>>
    /\ output_file = <<>>
    /\ wrap = Inf
    /\ exc = "none"
    /\ run = 1
    /\ pc = "main"
    /\ calls = 1
    /\ before = <<>>
    /\ list_ids = <<>>
    /\ tbfsbs_ids = <<>>
    /\ next_id = 1

NextMain ==
    \/ MainDir
    \/ MainFile
    \/ ParseHeader
    \/ ParseHeaderRaise
    \/ ParseBody
    \/ ParseBodyRaise
    \/ ParseElse
    \/ ParseElseRaise
    \/ MainExtend
    \/ MainWrite
    \/ MainExit

SpecMain == InitMain /\ [][NextMain]_vars

-----------------------------------------------------------------------------
(* What the claims speak about *)

\* the positions of the header lines of a file
HeaderPositions(rows) == {k \in 1..Len(rows) : StartsWith(rows[k], "%")}

\* the position of the i-th header line
NthHeader(rows, i) ==
    CHOOSE k \in HeaderPositions(rows) :
        Cardinality({j \in HeaderPositions(rows) : j <= k}) = i

\* the position after the last body line of the header at position k
BlockEnd(rows, k) ==
    LET later == {j \in HeaderPositions(rows) : j > k}
    IN  IF later = {} THEN Len(rows) + 1
        ELSE CHOOSE j \in later : \A m \in later : j <= m

RECURSIVE StrippedLines(_, _, _)
\* the lines a..b-1 of a file, each without its trailing whitespace, concatenated
StrippedLines(rows, a, b) ==
    IF a >= b THEN <<>>
    ELSE RStrip(rows[a]) \o StrippedLines(rows, a + 1, b)

\* a header line with an identifier token
WellFormedHeader(row) == StartsWith(row, "%") /\ Len(Split(row)) >= 2

\* the first line is a header and every header line has an identifier
WellFormedInput(rows) ==
    /\ rows # <<>>
    /\ StartsWith(rows[1], "%")
    /\ \A k \in HeaderPositions(rows) : WellFormedHeader(rows[k])

\* the parse of input_file has ended, with or without exception
ParseEnded == pc # "parse"

\* a row without its line terminator
Chomp(row) ==
    IF row # <<>> /\ row[Len(row)] = "\n" THEN ButLast(row) ELSE row

\* the rows of the written text
OutputRows == ReadLines(output_file)

\* the sequence lines written for the i-th record: the rows of the output
\* between its header line and the next one, without their line terminators
SeqLines(i) ==
    LET h == NthHeader(OutputRows, i)
        e == BlockEnd(OutputRows, h)
    IN  [k \in 1..(e - h - 1) |-> Chomp(OutputRows[h + k])]

\* ceil(a / b)
CeilDiv(a, b) == (a + b - 1) \div b

\* the rows of input_file that parse has read
Consumed == Len(input_file) - Len(tbfsbs_file)

\* the Records the header blocks of a file stand for
ExpectedRecords(rows) ==
    [i \in 1..Cardinality(HeaderPositions(rows)) |->
        LET h == NthHeader(rows, i)
            t == Split(rows[h])
        IN  TBFSBS_Record(
                t[2],
                IF Len(t) >= 3 /\ IsFloat(t[3]) THEN FloatOf(t[3]) ELSE None,
                IF Len(t) >= 3 /\ IsFloat(t[3])
                    THEN Join(SubSeq(t, 4, Len(t)))
                    ELSE Join(SubSeq(t, 3, Len(t))),
                StrippedLines(rows, h + 1, BlockEnd(rows, h)))]

-----------------------------------------------------------------------------
(* Claims *)

\* C1: writing a parsed Collection with unbounded wrap width and parsing the
\* written text gives a Collection with the same records, field by field
C1_RoundTrip ==
    (run = 2 /\ wrap = Inf /\ tbfsbs # <<>> /\ ParseEnded)
        => (pc = "parsed" /\ list = tbfsbs)

\* C2: parsing an input without header line completes without failure and
\* adds no Record
C2_NoHeaderNoRecord ==
    (run = 1 /\ HeaderPositions(input_file) = {} /\ ParseEnded)
        => (exc = "none" /\ list = <<>>)

\* C3: an input that starts with a header and has n well-formed header lines
\* gives n Records in header order, the i-th with the concatenation of the
\* stripped lines between the i-th header and the next as its sequence
C3_OneRecordPerHeader ==
    (WellFormedInput(input_file) /\ ParseEnded) =>
        /\ exc = "none"
        /\ Len(list) = Cardinality(HeaderPositions(input_file))
        /\ \A i \in 1..Len(list) :
              LET h == NthHeader(input_file, i)
              IN  /\ list[i].identifier = Split(input_file[h])[2]
                  /\ list[i].sequence =
                        StrippedLines(input_file, h + 1, BlockEnd(input_file, h))

\* C3 witness: two body lines, the first with internal and trailing
\* whitespace, make one sequence
C3_Witness ==
    /\ pc = "parsed"
    /\ input_file = <<HdrValue, BodySpaced, BodyPlain>>
    /\ Len(list) = 1
    /\ list[1].sequence = <<"A", " ", "C", "A", "C", "G", "T">>

\* C4: a Record's identifier is token 1 of its header line; when token 2
\* parses as a number it is the target value and the description is tokens
\* 3.. joined by single spaces, otherwise the target value is unset and the
\* description is tokens 2.. joined by single spaces; "% A 1.5 d e" gives
\* (A, 1.5, "d e") and "% B d e" gives (B, unset, "d e")
C4_HeaderFields ==
    \A i \in 1..Len(list) :
        LET row == input_file[NthHeader(input_file, i)]
            t == Split(row)
        IN  /\ list[i].identifier = t[2]
            /\ IF Len(t) >= 3 /\ IsFloat(t[3])
               THEN /\ list[i].target_value = FloatOf(t[3])
                    /\ list[i].description = Join(SubSeq(t, 4, Len(t)))
               ELSE /\ list[i].target_value = None
                    /\ list[i].description = Join(SubSeq(t, 3, Len(t)))
            /\ row = HdrValue =>
                  /\ list[i].identifier = <<"A">>
                  /\ list[i].target_value = <<15, 1>>
                  /\ list[i].description = <<"d", " ", "e">>
            /\ row = HdrPlain =>
                  /\ list[i].identifier = <<"B">>
                  /\ list[i].target_value = None
                  /\ list[i].description = <<"d", " ", "e">>

\* C4 witness: a header with a value and one without were both parsed
C4_Witness ==
    /\ run = 1
    /\ pc = "parsed"
    /\ \E i, j \in 1..Len(list) :
          /\ input_file[NthHeader(input_file, i)] = HdrValue
          /\ input_file[NthHeader(input_file, j)] = HdrPlain

\* C5: a header without body lines gives a Record with the empty sequence,
\* whether another header follows it or it is the last line; the input
\* "% X" alone gives the one Record (X, unset, "", "")
C5_EmptyBody ==
    (run = 1 /\ ParseEnded /\ exc = "none") =>
        /\ \A i \in 1..Cardinality(HeaderPositions(input_file)) :
              LET h == NthHeader(input_file, i)
              IN  BlockEnd(input_file, h) = h + 1 =>
                     (Len(list) >= i /\ list[i].sequence = <<>>)
        /\ input_file = <<HdrBare>> =>
              list = <<TBFSBS_Record(<<"X">>, None, <<>>, <<>>)>>

\* C5 witness: a header followed at once by a header, and a header that is
\* the last line, each gave a Record with the empty sequence
C5_Witness ==
    /\ run = 1
    /\ pc = "parsed"
    /\ input_file = <<HdrValue, HdrBare>>
    /\ Len(list) = 2
    /\ list[1].sequence = <<>>
    /\ list[2].sequence = <<>>

\* C6: once parse has read a header line without identifier token it has
\* ended in failure with no Record made for that header, and no Record of a
\* Collection has a missing or empty identifier
C6_MissingIdentifierFails ==
    /\ \A k \in HeaderPositions(input_file) :
          (Len(Split(input_file[k])) < 2
             /\ Len(input_file) - Len(tbfsbs_file) >= k) =>
                /\ pc = "raised"
                /\ exc = "IndexError"
                /\ Len(list) = Cardinality({j \in HeaderPositions(input_file) : j < k})
    /\ \A i \in 1..Len(list) :
          list[i].identifier # Unbound /\ list[i].identifier # <<>>

\* C6 witness: the marker alone after a complete record: the record before
\* it was appended, and parse failed
C6_Witness ==
    /\ input_file = <<HdrValue, BodyPlain, HdrMarker>>
    /\ pc = "raised"
    /\ exc = "IndexError"
    /\ Len(list) = 1

\* the header line the claim C7 expects: the value whenever it is set
C7_ExpectedHeaderLine(record) ==
    <<"%", " ">> \o record.identifier \o <<" ">>
        \o (IF record.target_value # None
            THEN FloatStr(record.target_value) \o <<" ">>
            ELSE <<>>)
        \o record.description

\* C7: write puts the target value in the header line exactly when it is
\* set, zero counting as set, followed by one space; an unset value is left
\* out with no extra space
C7_ValueWrittenIffSet ==
    pc = "written" =>
        \A i \in 1..Len(tbfsbs) :
            Chomp(OutputRows[NthHeader(OutputRows, i)])
                = C7_ExpectedHeaderLine(tbfsbs[i])

RECURSIVE C8_Blocks(_, _, _)
\* the header line and sequence block of the records i.., each part ended
\* by a newline
C8_Blocks(records, i, width) ==
    IF i > Len(records) THEN <<>>
    ELSE HeaderLine(records[i]) \o <<"\n">>
            \o Fill(records[i].sequence, width) \o <<"\n">>
            \o C8_Blocks(records, i + 1, width)

\* C8: the written text is the blocks of the records in Collection order,
\* without the newline at its very end; it is empty for an empty
\* Collection; the Collection is the one parse built, unchanged
C8_WriteInOrder ==
    pc = "written" =>
        /\ tbfsbs = list
        /\ tbfsbs = <<>> => output_file = <<>>
        /\ tbfsbs # <<>> =>
              output_file \o <<"\n">> = C8_Blocks(tbfsbs, 1, wrap)

\* C8 witness: two records with different headers were written
C8_Witness ==
    /\ pc = "written"
    /\ Len(tbfsbs) = 2
    /\ tbfsbs[1].identifier # tbfsbs[2].identifier
    /\ tbfsbs[1].sequence # <<>>

\* C9: a sequence of length L >= 1 is written as ceil(L / w) lines, all but
\* the last of exactly w characters, the last of 1..w characters
C9_FixedWidthLines ==
    pc = "written" =>
        \A i \in 1..Len(tbfsbs) :
            LET L == Len(tbfsbs[i].sequence)
                lines == SeqLines(i)
            IN  L >= 1 =>
                  /\ Len(lines) = CeilDiv(L, wrap)
                  /\ \A k \in 1..(Len(lines) - 1) : Len(lines[k]) = wrap
                  /\ Len(lines[Len(lines)]) >= 1
                  /\ Len(lines[Len(lines)]) <= wrap

\* C10: the sequence lines written for a Record, concatenated, are the
\* Record's sequence
C10_RejoinedLines ==
    pc = "written" =>
        \A i \in 1..Len(tbfsbs) : Flat(SeqLines(i)) = tbfsbs[i].sequence

\* every Record the current parse call put in the Collection stands for a
\* header block whose lines were all read
C13_Complete ==
    \A i \in 1..(Len(list) - Len(before)) :
        LET h == NthHeader(input_file, i)
        IN  /\ BlockEnd(input_file, h) - 1 <= Consumed
            /\ list[Len(before) + i].sequence =
                  StrippedLines(input_file, h + 1, BlockEnd(input_file, h))

\* a step on the same Collection keeps every Record it holds as it is
C13_Kept ==
    run' = run =>
        \A i \in 1..Len(list) : Len(list') >= i /\ list'[i] = list[i]

\* C13: at every step of parse, also after parse failed on a later header,
\* every Record in the Collection was built from a complete header block,
\* and a Record is never modified after it was appended
C13_NoPartialRecord == [](C13_Complete) /\ [][C13_Kept]_vars

\* C13 witness: parse failed on the third line; the Record of the block
\* before it is in the Collection, with its whole sequence
C13_Witness ==
    /\ input_file = <<HdrPlain, BodySpaced, HdrMarker>>
    /\ exc = "IndexError"
    /\ Len(list) = 1
    /\ list[1].sequence = <<"A", " ", "C">>

\* C14: lines before the first header do not make parse fail and belong to
\* no Record: the Records are those of the header blocks
C14_LeadingLinesDropped ==
    (/\ run = 1
     /\ input_file # <<>>
     /\ ~StartsWith(input_file[1], "%")
     /\ HeaderPositions(input_file) # {}
     /\ \A k \in HeaderPositions(input_file) : WellFormedHeader(input_file[k])
     /\ ParseEnded)
        => (exc = "none" /\ list = ExpectedRecords(input_file))

\* C16: the first token of the header line of every Record is the marker
\* alone, so that no identifier is taken from a later token of a line whose
\* marker is followed directly by other characters
C16_MarkerAlone ==
    \A i \in 1..(Len(list) - Len(before)) :
        Split(input_file[NthHeader(input_file, i)])[1] = <<"%">>

\* C15: a parse call leaves the Records the Collection held before it in
\* place and appends after them exactly the Records of its own input, those
\* a call on an empty Collection gives; nothing of an earlier call is in them
C15_CallsIndependent ==
    /\ Len(list) >= Len(before)
    /\ SubSeq(list, 1, Len(before)) = before
    /\ calls = 1 => before = <<>>
    /\ pc = "parsed" => list = before \o ExpectedRecords(input_file)
    /\ C13_Complete

\* C15 witness: a second call, made after a call that left a pending header
\* and sequence, has returned
C15_Witness ==
    /\ calls = 2
    /\ pc = "parsed"
    /\ Len(before) = 2
    /\ input_file = <<HdrValue, BodySpaced>>
    /\ Len(list) = 3

RECURSIVE ProcessedRecords(_)
\* the Records of the files among the first n entries of input_files, in the
\* order of the entries
ProcessedRecords(n) ==
    IF n = 0 THEN <<>>
    ELSE ProcessedRecords(n - 1) \o
             (IF IsDir(input_files[n]) THEN <<>>
              ELSE ExpectedRecords(Content(input_files[n])))

\* the aggregate holds the Records of the files done so far, file after file
C11_InOrder == tbfsbs = ProcessedRecords(pos - 1)

\* extend puts the Records of the file after those held, and an append
\* during parse adds one Record at the end
C11_Step ==
    /\ (pc = "parsed" /\ pc' = "main") =>
           /\ Len(tbfsbs') = Len(tbfsbs) + Len(list)
           /\ SubSeq(tbfsbs', 1, Len(tbfsbs)) = tbfsbs
           /\ SubSeq(tbfsbs', Len(tbfsbs) + 1, Len(tbfsbs')) = list
    /\ (pc = "parse" /\ list' # list) =>
           /\ Len(list') = Len(list) + 1
           /\ SubSeq(list', 1, Len(list)) = list

\* C11: after extend the Collection holds its Records as before, followed by
\* those of the other in their order, and its length is the sum; append adds
\* one Record at the end; the order is the order of insertion and Records
\* with the same identifier are all kept
C11_OrderKept == [](C11_InOrder) /\ [][C11_Step]_vars

\* C11 witness: a Collection of 3 was extended by one of 2 and holds 5, the
\* first and the last with the same identifier
C11_Witness ==
    /\ pc = "main"
    /\ Len(tbfsbs) = 5
    /\ Len(list) = 2
    /\ SubSeq(tbfsbs, 4, 5) = list
    /\ tbfsbs[1].identifier = tbfsbs[5].identifier

\* C12: no Record is an element of the Collection of a file and of the
\* aggregate at the same time
C12_Exclusive ==
    \A i \in DOMAIN list_ids : \A j \in DOMAIN tbfsbs_ids :
        list_ids[i] # tbfsbs_ids[j]

\* the files below the directories given on the command line
FilesBelowArgs ==
    { f \in fs : /\ ~IsDir(f)
                 /\ Len(f) > 1
                 /\ \E i \in DOMAIN input_files :
                       Len(input_files[i]) = 1 /\ input_files[i] = <<f[1]>> }

\* C17: when the loop has ended, every file below a directory given as input
\* was parsed once
C17_ParsedOnce ==
    pc \in {"written", "exit"} =>
        \A f \in FilesBelowArgs :
            Cardinality({i \in 1..(pos - 1) : input_files[i] = f}) = 1

Ended == pc \in {"written", "exit", "raised"}

\* where a run ends: all entries done, or at the file whose parse raised
\* and with nothing written
C18_EndState ==
    /\ pc \in {"written", "exit"} => pos > Len(input_files) /\ exc = "none"
    /\ pc = "raised" => pos <= Len(input_files) /\ output_file = <<>>

\* the paths a step adds are below the directory at hand, and the write is
\* made from the end of the loop
C18_Step ==
    /\ \A i \in (Len(input_files) + 1)..Len(input_files') :
           /\ Len(input_files'[i]) > Len(input_files[pos])
           /\ SubSeq(input_files'[i], 1, Len(input_files[pos]))
                  = input_files[pos]
    /\ (pc' = "written" /\ pc # "written") =>
           pc = "main" /\ pos > Len(input_files)

RECURSIVE Weight(_)
RECURSIVE WeightAll(_, _)
\* the steps an entry of input_files stands for: those of parsing a file, or
\* the expansion of a directory and the steps of all it adds
Weight(path) ==
    IF IsDir(path) THEN 1 + WeightAll(rglob(path), 1)
    ELSE Len(Content(path)) + 3

WeightAll(paths, from) ==
    IF from > Len(paths) THEN 0
    ELSE Weight(paths[from]) + WeightAll(paths, from + 1)

\* the steps left to a run that stands at `at`, with entry p of the paths at
\* hand and so many rows of its file unread, the last step being the write
\* or the exit
VariantAt(at, paths, p, rows) ==
    CASE at = "main" -> 1 + WeightAll(paths, p)
      [] at = "parse" -> 1 + rows + 2 + WeightAll(paths, p + 1)
      [] at = "parsed" -> 1 + 1 + WeightAll(paths, p + 1)
      [] OTHER -> 0

Variant == VariantAt(pc, input_files, pos, Len(tbfsbs_file))

\* a step takes from the count of the steps left, which stays a natural
C18_Fewer ==
    LET after == VariantAt(pc', input_files', pos', Len(tbfsbs_file'))
    IN  after < Variant /\ after >= 0

\* C18 as amended: the loop ends for every tree, each step taking from a
\* count of the steps left that cannot go below zero; every path added is
\* deeper than the directory it comes from; the run ends with all entries
\* done and the write, if asked for, made once after them, or it ends at the
\* file whose parse raised, with nothing written
C18_Terminates ==
    /\ [](C18_EndState /\ (Ended <=> Variant = 0))
    /\ [][C18_Step /\ C18_Fewer]_vars

\* C18 witness: a tree of three levels was gone through and written
C18_Witness ==
    /\ pc = "written"
    /\ input_files[1] = <<"d">>
    /\ <<"d", "s", "t", "b">> \in fs
    /\ pos = Len(input_files) + 1
    /\ Len(tbfsbs) > 0

\* C18 as stated: every run goes on until all entries are processed; here
\* for the runs that end at a header without identifier, the failure C6
\* describes
C18_AllProcessed == ~(pc = "raised" /\ exc = "IndexError" /\ run = 1 /\ input_files # <<>>)

====
